---------------------------- MODULE Spec2Model ----------------------------
(***************************************************************************)
(* Model of the onlyfunding.fun Python SDK (src/python/fundity_sdk.py).    *)
(*                                                                         *)
(* The client performs one HTTP GET per operation, turns the JSON body     *)
(* into a FundingRatesData, and computes either a single normalized rate   *)
(* (get_rate) or the list of pairwise spreads for a symbol                 *)
(* (find_arbitrage_opportunities).                                         *)
(*                                                                         *)
(* Numbers.  Raw rates are integers.  A value `r / 10000.0` is kept as the *)
(* exact fraction [num |-> r, den |-> 10000] and compared by cross         *)
(* multiplication.  For the small integers used here IEEE division is      *)
(* correctly rounded and strictly monotone, so the order and the equality  *)
(* of the floats are those of the fractions.                               *)
(*                                                                         *)
(* Library behaviour the code relies on (requests >= 2.28.0, as pinned in  *)
(* src/python/setup.py):                                                   *)
(*   - Response.raise_for_status raises HTTPError for 4xx and 5xx only;    *)
(*   - Response.json raises requests.exceptions.JSONDecodeError, which is  *)
(*     a RequestException (and a ValueError);                              *)
(*   - list.sort(reverse=True) is stable: equal keys keep their order.     *)
(***************************************************************************)
EXTENDS Integers, Sequences, FiniteSets

VARIABLES
    server,     \* what the API answers to a GET /funding issued now
    changed,    \* the backing data changed since the last call
    requests,   \* HTTP GETs issued by the client's session
    calls,      \* operations invoked on the client
    last        \* the most recent operation: arguments, response, outcome

vars == <<server, changed, requests, calls, last>>

---------------------------------------------------------------------------
(* Bounds of the model *)

MaxExchanges == 3

SessionExchanges == 1

MaxRate == 2

MaxMinSpread == 3

MaxCalls == 2

(* rate / 10000.0 *)
Scale == 10000

---------------------------------------------------------------------------
(* Values *)

ExchangeNames == <<"ex_a", "ex_b", "ex_c", "ex_d", "ex_e">>

ExchangeIds(n) == {ExchangeNames[i] : i \in 1..n}

\* symbols a caller may ask for; rate tables quote TableSymbols only, so
\* "ETH" is the symbol an exchange does not carry
Symbols == {"BTC", "ETH"}

TableSymbols == {"BTC"}

Rates == 0..MaxRate

\* min_spread, a float: k / 20000 for k in 0..MaxMinSpread, so that both
\* thresholds on the 1/10000 grid and thresholds between grid points occur
MinSpreads == {[num |-> k, den |-> 2 * Scale] : k \in 0..MaxMinSpread}

Range(s) == {s[i] : i \in 1..Len(s)}

EmptyTables == [e \in {} |-> 0]

\* a rate table: symbol -> raw integer rate, for the symbols it carries
Tables == UNION {[D -> Rates] : D \in SUBSET TableSymbols}

\* the keys of a JSON object, in document order (a dict keeps it)
Orderings(S) ==
    UNION {{s \in [1..k -> S] : \A i, j \in 1..k : i # j => s[i] # s[j]}
           : k \in 0..Cardinality(S)}

\* well-formed bodies: {"funding_rates": {exchange: {symbol: int}}}
Snapshots(n) ==
    UNION {{[json |-> "object", fr |-> "mapping", keys |-> ks, tables |-> t]
            : t \in [Range(ks) -> Tables]}
           : ks \in Orderings(ExchangeIds(n))}

\* a body without the "funding_rates" key
NoFundingRates ==
    [json |-> "object", fr |-> "absent", keys |-> <<>>, tables |-> EmptyTables]

\* bodies that are not the documented shape: not JSON, a top-level array,
\* "funding_rates": null, "funding_rates": [] and "funding_rates": ["ex_a"]
MalformedBodies ==
    {[json |-> "invalid", fr |-> "absent", keys |-> <<>>, tables |-> EmptyTables],
     [json |-> "array", fr |-> "absent", keys |-> <<>>, tables |-> EmptyTables],
     [json |-> "object", fr |-> "null", keys |-> <<>>, tables |-> EmptyTables],
     [json |-> "object", fr |-> "array", keys |-> <<>>, tables |-> EmptyTables],
     [json |-> "object", fr |-> "array", keys |-> <<"ex_a">>, tables |-> EmptyTables]}

Bodies(n) == Snapshots(n) \cup {NoFundingRates} \cup MalformedBodies

\* bodies sent with a status other than 200
ErrorBodies == MalformedBodies \cup Snapshots(1)

NetworkError ==
    [net |-> FALSE, status |-> 0,
     body |-> [json |-> "invalid", fr |-> "absent", keys |-> <<>>,
               tables |-> EmptyTables]]

Responses(n) ==
    {NetworkError}
    \cup {[net |-> TRUE, status |-> 200, body |-> b] : b \in Bodies(n)}
    \cup {[net |-> TRUE, status |-> s, body |-> b]
          : s \in {300, 404, 500}, b \in ErrorBodies}

\* the answers of a session: a network error, any body with status 200, and
\* a server error
SessionResponses ==
    {NetworkError}
    \cup {[net |-> TRUE, status |-> 200, body |-> b]
          : b \in Bodies(SessionExchanges)}
    \cup {[net |-> TRUE, status |-> 500, body |-> b] : b \in MalformedBodies}

---------------------------------------------------------------------------
(* Outcomes *)

MsgFetch == "Failed to fetch funding rates"

MsgInvalid == "Invalid API response"

NoneRate == [none |-> TRUE, num |-> 0, den |-> 1]

NoData == [type |-> "none", keys |-> <<>>, tables |-> EmptyTables]

Raise(exc, msg) ==
    [kind |-> "raise", exc |-> exc, msg |-> msg,
     data |-> NoData, rate |-> NoneRate, opps |-> <<>>]

Return(data, rate, opps) ==
    [kind |-> "return", exc |-> "none", msg |-> "none",
     data |-> data, rate |-> rate, opps |-> opps]

---------------------------------------------------------------------------
(* get_funding_rates *)

\* variant: only client errors are rejected
RaisesForStatusClientOnly(status) == 400 <= status /\ status < 500

\* response.raise_for_status()
RaisesForStatus(status) == 400 <= status /\ status < 600

\* data.get('funding_rates', {})
FundingRatesField(body) ==
    IF body.fr = "absent"
    THEN [type |-> "mapping", keys |-> <<>>, tables |-> EmptyTables]
    ELSE [type |-> body.fr, keys |-> body.keys, tables |-> body.tables]

\* The try block: session.get raises on a network error, raise_for_status
\* on an error status, response.json on an unparsable body; all three are
\* RequestExceptions and take the first except clause.  data.get on a parsed
\* body that is not an object raises AttributeError, which neither clause
\* catches.  No fetched value is validated.
get_funding_rates(resp) ==
    IF ~resp.net THEN Raise("onlyfundingError", MsgFetch)
    ELSE IF RaisesForStatus(resp.status) THEN Raise("onlyfundingError", MsgFetch)
    ELSE IF resp.body.json = "invalid" THEN Raise("onlyfundingError", MsgFetch)
    ELSE IF resp.body.json # "object" THEN Raise("AttributeError", "none")
    ELSE Return(FundingRatesField(resp.body), NoneRate, <<>>)

---------------------------------------------------------------------------
(* get_rate *)

Normalize(rate) == [none |-> FALSE, num |-> rate, den |-> Scale]

\* `exchange in data.funding_rates` is False on a list without the name and
\* raises TypeError on None; indexing a list by a name raises TypeError
get_rate(resp, exchange, symbol) ==
    LET f == get_funding_rates(resp)
        fr == f.data
    IN  IF f.kind = "raise" THEN f
        ELSE IF fr.type = "null" THEN Raise("TypeError", "none")
        ELSE IF fr.type = "array"
             THEN IF exchange \in Range(fr.keys)
                  THEN Raise("TypeError", "none")
                  ELSE Return(fr, NoneRate, <<>>)
        ELSE IF exchange \in Range(fr.keys)
                /\ symbol \in DOMAIN fr.tables[exchange]
             THEN Return(fr, Normalize(fr.tables[exchange][symbol]), <<>>)
             ELSE Return(fr, NoneRate, <<>>)

---------------------------------------------------------------------------
(* find_arbitrage_opportunities *)

Abs(n) == IF n < 0 THEN -n ELSE n

RatLess(x, y) == x.num * y.den < y.num * x.den

\* abs(rate1 - rate2) / 10000.0
Spread(rate1, rate2) == [num |-> Abs(rate1 - rate2), den |-> Scale]

\* variant: spread > min_spread
MeetsMinSpreadStrict(spread, min_spread) == RatLess(min_spread, spread)

\* spread >= min_spread
MeetsMinSpread(spread, min_spread) == ~RatLess(spread, min_spread)

\* variant: the comparison is turned around
LongExchangeHigher(exchange1, rate1, exchange2, rate2) ==
    IF rate1 > rate2 THEN exchange1 ELSE exchange2

\* variant: rate1 <= rate2
LongExchangeTieFirst(exchange1, rate1, exchange2, rate2) ==
    IF rate1 <= rate2 THEN exchange1 ELSE exchange2

\* exchange1 if rate1 < rate2 else exchange2
LongExchange(exchange1, rate1, exchange2, rate2) ==
    IF rate1 < rate2 THEN exchange1 ELSE exchange2

\* exchange2 if rate1 < rate2 else exchange1
ShortExchange(exchange1, rate1, exchange2, rate2) ==
    IF rate1 < rate2 THEN exchange2 ELSE exchange1

Opportunity(symbol, exchange1, rate1, exchange2, rate2) ==
    [symbol |-> symbol,
     exchange1 |-> exchange1,
     rate1 |-> Normalize(rate1),
     exchange2 |-> exchange2,
     rate2 |-> Normalize(rate2),
     spread |-> Spread(rate1, rate2),
     long_exchange |-> LongExchange(exchange1, rate1, exchange2, rate2),
     short_exchange |-> ShortExchange(exchange1, rate1, exchange2, rate2)]

\* the exchanges whose table has the symbol, in the order of funding_rates
QualifyingExchanges(fr, symbol) ==
    SelectSeq(fr.keys, LAMBDA e : symbol \in DOMAIN fr.tables[e])

\* variant: exchanges[i:]
InnerStartSelf(i) == i

\* exchanges[i+1:]
InnerStart(i) == i + 1

RECURSIVE InnerLoop(_, _, _, _, _, _)
InnerLoop(fr, exchanges, symbol, min_spread, i, j) ==
    IF j > Len(exchanges) THEN <<>>
    ELSE LET exchange1 == exchanges[i]
             exchange2 == exchanges[j]
             rate1 == fr.tables[exchange1][symbol]
             rate2 == fr.tables[exchange2][symbol]
         IN  (IF MeetsMinSpread(Spread(rate1, rate2), min_spread)
              THEN <<Opportunity(symbol, exchange1, rate1, exchange2, rate2)>>
              ELSE <<>>)
             \o InnerLoop(fr, exchanges, symbol, min_spread, i, j + 1)

RECURSIVE OuterLoop(_, _, _, _, _)
OuterLoop(fr, exchanges, symbol, min_spread, i) ==
    IF i > Len(exchanges) THEN <<>>
    ELSE InnerLoop(fr, exchanges, symbol, min_spread, i, InnerStart(i))
         \o OuterLoop(fr, exchanges, symbol, min_spread, i + 1)

Reverse(s) == [i \in 1..Len(s) |-> s[Len(s) + 1 - i]]

\* x goes behind every element whose spread is not greater than its own
RECURSIVE InsertAscending(_, _)
InsertAscending(x, s) ==
    IF s = <<>> THEN <<x>>
    ELSE IF RatLess(x.spread, Head(s).spread) THEN <<x>> \o s
    ELSE <<Head(s)>> \o InsertAscending(x, Tail(s))

RECURSIVE StableSortAscending(_, _)
StableSortAscending(s, acc) ==
    IF s = <<>> THEN acc
    ELSE StableSortAscending(Tail(s), InsertAscending(Head(s), acc))

\* variant: sorted ascending, then reversed, which turns ties around
SortAscendingThenReverse(opportunities) ==
    Reverse(StableSortAscending(opportunities, <<>>))

\* opportunities.sort(key=lambda x: x['spread'], reverse=True): the list is
\* reversed, sorted stably in ascending order and reversed again
SortBySpreadDescending(opportunities) ==
    Reverse(StableSortAscending(Reverse(opportunities), <<>>))

\* data.funding_rates.items() raises AttributeError on a list and on None
find_arbitrage_opportunities(resp, symbol, min_spread) ==
    LET f == get_funding_rates(resp)
        fr == f.data
    IN  IF f.kind = "raise" THEN f
        ELSE IF fr.type # "mapping" THEN Raise("AttributeError", "none")
        ELSE LET exchanges == QualifyingExchanges(fr, symbol)
             IN  IF Len(exchanges) < 2 THEN Return(fr, NoneRate, <<>>)
                 ELSE Return(fr, NoneRate,
                        SortBySpreadDescending(
                            OuterLoop(fr, exchanges, symbol, min_spread, 1)))

---------------------------------------------------------------------------
(* The client *)

\* variant: the previous call's response is reused
session_get_cached ==
    IF last.op # "none"
    THEN [resp |-> last.served, gets |-> 0]
    ELSE [resp |-> server, gets |-> 1]

\* self.session.get(f"{self.base_url}/funding", timeout=self.timeout)
session_get == [resp |-> server, gets |-> 1]

NoCall ==
    [op |-> "none", exchange |-> "", symbol |-> "",
     min_spread |-> [num |-> 0, den |-> 2 * Scale],
     backing |-> NetworkError, served |-> NetworkError, after_change |-> FALSE,
     out |-> Raise("none", "none")]

\* one operation of the client: at most `limit` operations are followed
Invoke(op, exchange, symbol, min_spread, out, got, limit) ==
    /\ calls < limit
    /\ calls' = calls + 1
    /\ requests' = requests + got.gets
    /\ last' = [op |-> op, exchange |-> exchange, symbol |-> symbol,
                min_spread |-> min_spread,
                backing |-> server, served |-> got.resp,
                after_change |-> changed,
                out |-> out]
    /\ changed' = FALSE
    /\ UNCHANGED server

CallGetFundingRates(limit) ==
    LET got == session_get
    IN  Invoke("get_funding_rates", "", "", NoCall.min_spread,
               get_funding_rates(got.resp), got, limit)

CallGetRate(limit) ==
    \E exchange \in ExchangeIds(MaxExchanges), symbol \in Symbols :
        LET got == session_get
        IN  Invoke("get_rate", exchange, symbol, NoCall.min_spread,
                   get_rate(got.resp, exchange, symbol), got, limit)

CallFindArbitrageOpportunities(limit) ==
    \E symbol \in Symbols, min_spread \in MinSpreads :
        LET got == session_get
        IN  Invoke("find_arbitrage_opportunities", "", symbol, min_spread,
                   find_arbitrage_opportunities(got.resp, symbol, min_spread),
                   got, limit)

\* the API's data moves on between two calls (several changes in a row are
\* one change)
BackingChange ==
    /\ calls < MaxCalls
    /\ ~changed
    /\ server' \in SessionResponses \ {server}
    /\ changed' = TRUE
    /\ UNCHANGED <<requests, calls, last>>

Init ==
    /\ server \in Responses(MaxExchanges)
    /\ changed = FALSE
    /\ requests = 0
    /\ calls = 0
    /\ last = NoCall

Next ==
    \/ CallGetFundingRates(1)
    \/ CallGetRate(1)
    \/ CallFindArbitrageOpportunities(1)

\* each operation applied once to every answer of the API, over the full
\* range of snapshots
Spec == Init /\ [][Next]_vars

InitSession ==
    /\ server \in SessionResponses
    /\ changed = FALSE
    /\ requests = 0
    /\ calls = 0
    /\ last = NoCall

NextSession ==
    \/ CallGetFundingRates(MaxCalls)
    \/ CallGetRate(MaxCalls)
    \/ CallFindArbitrageOpportunities(MaxCalls)
    \/ BackingChange

\* a sequence of calls on one client while the API's data changes
SpecSession == InitSession /\ [][NextSession]_vars

---------------------------------------------------------------------------
(* Properties *)

LastFind == last.op = "find_arbitrage_opportunities"

Returned == last.out.kind = "return"

Opps == last.out.opps

FetchFails(resp) == get_funding_rates(resp).kind = "raise"

WellFormedBody(body) ==
    body.json = "object" /\ body.fr \in {"mapping", "absent"}

\* the call's fetch returned a snapshot of the documented shape
WellFormed(resp) == ~FetchFails(resp) /\ WellFormedBody(resp.body)

\* the exchanges of the answered snapshot whose table has the asked symbol
Carriers ==
    {e \in Range(last.backing.body.keys) :
        last.symbol \in DOMAIN last.backing.body.tables[e]}

\* the raw rate the answered snapshot gives exchange e for the asked symbol
RawRate(e) == last.backing.body.tables[e][last.symbol]

HasPair(a, b) ==
    \E k \in 1..Len(Opps) : {Opps[k].exchange1, Opps[k].exchange2} = {a, b}

\* |rate_a - rate_b| / 10000 >= min_spread, in integers
SpreadReaches(a, b) ==
    Abs(RawRate(a) - RawRate(b)) * last.min_spread.den
        >= last.min_spread.num * Scale

\* C1: on a well-formed snapshot find_arbitrage_opportunities returns an
\* opportunity for a pair of distinct exchanges carrying the symbol iff
\* |rate_a - rate_b| / 10000 >= min_spread (equality included), returns
\* nothing else, and returns the empty list without error when fewer than
\* two exchanges carry the symbol.
C1_SpreadFilter ==
    (LastFind /\ WellFormed(last.backing)) =>
        /\ Returned
        /\ \A a, b \in Carriers : a # b => (HasPair(a, b) <=> SpreadReaches(a, b))
        /\ \A k \in 1..Len(Opps) :
              {Opps[k].exchange1, Opps[k].exchange2} \subseteq Carriers
        /\ Cardinality(Carriers) < 2 => Opps = <<>>

\* a pair exactly at a positive min_spread is returned, another is left out
C1_Witness ==
    /\ LastFind /\ WellFormed(last.backing) /\ Returned
    /\ last.min_spread.num > 0
    /\ \E a, b \in Carriers :
          /\ a # b
          /\ Abs(RawRate(a) - RawRate(b)) * last.min_spread.den
                = last.min_spread.num * Scale
          /\ HasPair(a, b)
    /\ \E a, b \in Carriers : a # b /\ ~HasPair(a, b)

\* C2: the returned list has no entry with exchange1 = exchange2 and no two
\* entries for the same unordered pair of exchanges.
C2_NoSelfNoDuplicate ==
    (LastFind /\ Returned) =>
        /\ \A k \in 1..Len(Opps) : Opps[k].exchange1 # Opps[k].exchange2
        /\ \A k, l \in 1..Len(Opps) :
              k # l => {Opps[k].exchange1, Opps[k].exchange2}
                         # {Opps[l].exchange1, Opps[l].exchange2}

\* every pair of three carrying exchanges is returned
C2_Witness == LastFind /\ Returned /\ Len(Opps) >= 3

Pos(e) == CHOOSE i \in 1..Len(last.backing.body.keys) :
              last.backing.body.keys[i] = e

\* o1's pair is enumerated before o2's pair
EnumeratedBefore(o1, o2) ==
    \/ Pos(o1.exchange1) < Pos(o2.exchange1)
    \/ /\ o1.exchange1 = o2.exchange1
       /\ Pos(o1.exchange2) < Pos(o2.exchange2)

\* C3: the returned list is ordered by spread descending, and entries of
\* equal spread keep the order in which their pairs were enumerated.
C3_SortedStable ==
    (LastFind /\ Returned) =>
        \A k, l \in 1..Len(Opps) :
            k < l =>
                /\ Opps[k].spread.num >= Opps[l].spread.num
                /\ Opps[k].spread.num = Opps[l].spread.num
                      => EnumeratedBefore(Opps[k], Opps[l])

\* the sort moved an entry forward and there is a tie to keep in order
C3_Witness ==
    /\ LastFind /\ Returned
    /\ \E k, l \in 1..Len(Opps) :
          k < l /\ Opps[k].spread.num = Opps[l].spread.num
    /\ \E k, l \in 1..Len(Opps) :
          k < l /\ EnumeratedBefore(Opps[l], Opps[k])

\* C4 as stated: in every returned opportunity long_exchange is the exchange
\* of the pair with the lower raw rate and short_exchange the other one,
\* with the higher raw rate.
C4_LongLowerShortHigher ==
    (LastFind /\ Returned) =>
        \A k \in 1..Len(Opps) :
            /\ {Opps[k].long_exchange, Opps[k].short_exchange}
                  = {Opps[k].exchange1, Opps[k].exchange2}
            /\ RawRate(Opps[k].long_exchange) < RawRate(Opps[k].short_exchange)

\* C4 as amended: whenever the two raw rates of a returned pair differ,
\* long_exchange is the exchange with the lower raw rate and short_exchange
\* the other one; the raw rate of long_exchange is never the higher one.
C4_LongLowerWhenRatesDiffer ==
    (LastFind /\ Returned) =>
        \A k \in 1..Len(Opps) :
            /\ {Opps[k].long_exchange, Opps[k].short_exchange}
                  = {Opps[k].exchange1, Opps[k].exchange2}
            /\ RawRate(Opps[k].long_exchange) <= RawRate(Opps[k].short_exchange)
            /\ RawRate(Opps[k].exchange1) # RawRate(Opps[k].exchange2)
                  => RawRate(Opps[k].long_exchange)
                        < RawRate(Opps[k].short_exchange)

\* both directions occur: exchange1 is long in one entry, short in another
C4_Witness ==
    /\ LastFind /\ Returned
    /\ \E k \in 1..Len(Opps) :
          /\ Opps[k].long_exchange = Opps[k].exchange1
          /\ RawRate(Opps[k].exchange1) < RawRate(Opps[k].exchange2)
    /\ \E k \in 1..Len(Opps) :
          /\ Opps[k].long_exchange = Opps[k].exchange2
          /\ RawRate(Opps[k].exchange2) < RawRate(Opps[k].exchange1)

\* C9: in every returned opportunity rate1 is the normalized rate of
\* long_exchange and rate2 the normalized rate of short_exchange.
C9_Rate1IsLongRate ==
    (LastFind /\ Returned) =>
        \A k \in 1..Len(Opps) :
            /\ Opps[k].rate1.num = RawRate(Opps[k].long_exchange)
            /\ Opps[k].rate2.num = RawRate(Opps[k].short_exchange)

\* C10: long_exchange and short_exchange are different and are exactly
\* exchange1 and exchange2; when the raw rates are equal long_exchange is
\* exchange2 and short_exchange is exchange1.
C10_LongShortArePair ==
    (LastFind /\ Returned) =>
        \A k \in 1..Len(Opps) :
            /\ Opps[k].long_exchange # Opps[k].short_exchange
            /\ {Opps[k].long_exchange, Opps[k].short_exchange}
                  = {Opps[k].exchange1, Opps[k].exchange2}
            /\ RawRate(Opps[k].exchange1) = RawRate(Opps[k].exchange2)
                  => /\ Opps[k].long_exchange = Opps[k].exchange2
                     /\ Opps[k].short_exchange = Opps[k].exchange1

\* a pair with equal raw rates is returned, with spread 0
C10_Witness ==
    /\ LastFind /\ Returned
    /\ \E k \in 1..Len(Opps) :
          /\ RawRate(Opps[k].exchange1) = RawRate(Opps[k].exchange2)
          /\ Opps[k].spread.num = 0
          /\ Opps[k].long_exchange = Opps[k].exchange2

TransportFailure(resp) == ~resp.net \/ resp.status \notin 200..299

MalformedResponse(resp) ==
    /\ resp.net
    /\ \/ resp.body.json \in {"invalid", "array"}
       \/ resp.body.fr \in {"null", "array"}

\* C5: a transport failure (network error, non-2xx status) or a malformed
\* response (unparsable body, top-level array, non-mapping funding_rates)
\* surfaces from each of the three operations as onlyfundingError: no other
\* exception type escapes and nothing is returned.
C5_SingleDomainError ==
    (last.op # "none"
        /\ (TransportFailure(last.backing) \/ MalformedResponse(last.backing)))
    => (last.out.kind = "raise" /\ last.out.exc = "onlyfundingError")

KeysPresent ==
    /\ last.exchange \in Range(last.backing.body.keys)
    /\ last.symbol \in DOMAIN last.backing.body.tables[last.exchange]

\* C6: get_rate returns None without error exactly when the fetch succeeded
\* with a well-formed snapshot in which the exchange or the symbol is
\* absent; with both keys present it returns the raw rate / 10000 (also for
\* raw rate 0); when the fetch fails it raises.
C6_NotFoundExactlyWhenAbsent ==
    last.op = "get_rate" =>
        LET wellFormed == WellFormed(last.backing)
        IN  /\ (Returned /\ last.out.rate.none)
                  <=> (wellFormed /\ ~KeysPresent)
            /\ (wellFormed /\ KeysPresent)
                  => /\ Returned
                     /\ last.out.rate
                          = [none |-> FALSE,
                             num |-> last.backing.body.tables
                                        [last.exchange][last.symbol],
                             den |-> Scale]
            /\ FetchFails(last.backing) => last.out.kind = "raise"

LastFetch == last.op = "get_funding_rates"

RaisedFetchFailure ==
    /\ last.out.kind = "raise"
    /\ last.out.exc = "onlyfundingError"
    /\ last.out.msg = MsgFetch
    /\ last.out.msg # MsgInvalid

Expected ==
    CASE last.op = "get_funding_rates" -> get_funding_rates(last.backing)
      [] last.op = "get_rate" ->
            get_rate(last.backing, last.exchange, last.symbol)
      [] last.op = "find_arbitrage_opportunities" ->
            find_arbitrage_opportunities(last.backing, last.symbol,
                                         last.min_spread)
      [] OTHER -> NoCall.out

===========================================================================
